---- MODULE Spec2Model ----
(***************************************************************************)
(* A model of select_taxa.py: the complete-genomes table parser, the       *)
(* RefSeq/GenBank identifier resolver, the cached FTP retrieval of genome  *)
(* files and the batch driver main().                                      *)
(*                                                                         *)
(* Python strings that the code takes apart (project IDs, directory names, *)
(* table lines) are sequences of one-character strings; a dict is a        *)
(* function with a finite domain; None and the empty string are <<>>.      *)
(***************************************************************************)
EXTENDS Integers, Sequences, FiniteSets, TLC

\* ------------------------------------------------------------------ bounds
\* Calls of download_genome_files made by a direct caller.
MaxCalls == 2
\* Calls made a long time (about 30 days) after the call before.
MaxTicks == 1
\* Requested genome IDs.
MaxIds == 2
\* Records of a catalog handed to select_genomes_by_ids.
MaxRecords == 2
\* Lines of a table handed to _parse_genomes_table.
MaxLines == 3
\* Calls of _download_genomes_table.
MaxTableCalls == 2

\* --------------------------------------------------------------- helpers
Range(s) == {s[i] : i \in DOMAIN s}

Min(S) == CHOOSE x \in S : \A y \in S : x <= y
Max(S) == CHOOSE x \in S : \A y \in S : y <= x

\* The sequences over S of length at most n.
SeqsUpTo(S, n) == UNION {[1..k -> S] : k \in 0..n}

\* dict(pairs): of two pairs with the same key the later one stays.
Dict(pairs) ==
    [k \in {pairs[i][1] : i \in DOMAIN pairs} |->
        pairs[Max({i \in DOMAIN pairs : pairs[i][1] = k})][2]]

\* d.update(e)
Update(d, e) ==
    [k \in DOMAIN d \cup DOMAIN e |-> IF k \in DOMAIN e THEN e[k] ELSE d[k]]

\* None, the empty string and the empty list are all falsy in the code.
None == <<>>

\* str.endswith
EndsWith(s, suffix) ==
    /\ Len(suffix) <= Len(s)
    /\ SubSeq(s, Len(s) - Len(suffix) + 1, Len(s)) = suffix

\* -------------------------------------------------- genome dictionaries
Genome(rs, gb, name, rsaccs, gbaccs) ==
    [RefSeq_project_ID |-> rs, Project_ID |-> gb, Organism_Name |-> name,
     List_of_RefSeq_accessions |-> rsaccs, List_of_GenBank_accessions |-> gbaccs]

\* Organism names are compared by sorted(); a name is its rank in that order.
\* G1 has a directory under both base paths, G2 has no RefSeq project and a
\* GenBank directory only, G3 has no directory at all, G4 has a RefSeq project
\* ID but a GenBank directory only, which holds no file, G5 has a GenBank
\* directory and no accession code.
G1 == Genome(<<"1">>, <<"2">>, 1, <<"NC1", "NC2">>, <<"CP1">>)
G2 == Genome(<<>>, <<"3">>, 2, <<>>, <<"CP3">>)
G3 == Genome(<<"4">>, <<"5">>, 3, <<"NC4">>, <<"CP4">>)
G4 == Genome(<<"6">>, <<"7">>, 3, <<"NC6">>, <<"CP7">>)
G5 == Genome(<<>>, <<"8">>, 4, <<>>, <<>>)

Genomes == {G1, G2, G3, G4, G5}

\* ------------------------------------------------------ the FTP archive
host == "ftp.ncbi.nih.gov"
RefSeqBase == "/genomes/Bacteria"
GenBankBase == "/genbank/genomes/Bacteria"

Uid == <<"_", "u", "i", "d">>

\* One name of a directory listing: base_dir/<organism>_uid<projectid>.
Entry(base, organism, uid) == <<base, "/">> \o organism \o Uid \o uid

\* ftp.nlst(base_dir) of the archive, which does not change.
nlst(base_dir) ==
    IF base_dir = RefSeqBase
    THEN << Entry(RefSeqBase, <<"A">>, <<"1", "4">>),
            Entry(RefSeqBase, <<"E">>, <<"1">>),
            Entry(RefSeqBase, <<"F">>, <<"1">>) >>
    ELSE << Entry(GenBankBase, <<"E">>, <<"2">>),
            Entry(GenBankBase, <<"S">>, <<"3">>),
            Entry(GenBankBase, <<"A">>, <<"1", "5">>),
            Entry(GenBankBase, <<"M">>, <<"7">>),
            Entry(GenBankBase, <<"Z">>, <<"8">>) >>

Block(acc, ext, k) == <<acc, ext, k>>

\* The files of the archive: remote directory, file name -> its blocks.
\* NC1 has no .ptt; CP3.ptt is there and empty.
RemoteFiles ==
    LET E1 == Entry(RefSeqBase, <<"E">>, <<"1">>)
        S3 == Entry(GenBankBase, <<"S">>, <<"3">>)
        E2 == Entry(GenBankBase, <<"E">>, <<"2">>)
    IN  (<<E1, <<"NC1", ".gbk">>>> :> <<Block("NC1", ".gbk", 1), Block("NC1", ".gbk", 2)>>)
     @@ (<<E1, <<"NC2", ".gbk">>>> :> <<Block("NC2", ".gbk", 1)>>)
     @@ (<<E1, <<"NC2", ".ptt">>>> :> <<Block("NC2", ".ptt", 1)>>)
     @@ (<<E2, <<"CP1", ".gbk">>>> :> <<Block("CP1", ".gbk", 1)>>)
     @@ (<<S3, <<"CP3", ".gbk">>>> :> <<Block("CP3", ".gbk", 1)>>)
     @@ (<<S3, <<"CP3", ".ptt">>>> :> <<>>)

\* ---------------------------------------------------- the local files
File(content, mtime) == [exists |-> TRUE, content |-> content, mtime |-> mtime]
NoFile == [exists |-> FALSE, content |-> <<>>, mtime |-> 0]

\* os.path.join(create_directory(namespace + '/' + projectid), acc + ext)
TargetDir(namespace, projectid) == <<namespace, projectid>>
OutFile(target_dir, filename) == Append(target_dir, filename)

\* The cache directory is followed at the paths a call can name: those of the
\* accession codes of a genome under a namespace whose listing has its directory.
TargetPaths ==
    UNION { {OutFile(TargetDir("refseq", g.RefSeq_project_ID), <<a, e>>) :
                a \in {b \in Range(g.List_of_RefSeq_accessions) :
                          \E i \in DOMAIN nlst(RefSeqBase) :
                             EndsWith(nlst(RefSeqBase)[i], Uid \o g.RefSeq_project_ID)},
                e \in {".gbk", ".ptt"}}
            \cup
            {OutFile(TargetDir("genbank", g.Project_ID), <<a, e>>) :
                a \in {b \in Range(g.List_of_GenBank_accessions) :
                          \E i \in DOMAIN nlst(GenBankBase) :
                             EndsWith(nlst(GenBankBase)[i], Uid \o g.Project_ID)},
                e \in {".gbk", ".ptt"}}
          : g \in Genomes }

\* What the cache directory may hold before the first call: nothing, or one
\* file left by an earlier run or by another program (an empty one, or one with
\* content that is not the archive's).
OldContent == <<"old">>
InitialCaches ==
    {[p \in TargetPaths |-> NoFile]}
    \cup { [p \in TargetPaths |-> IF p = q THEN File(c, 0) ELSE NoFile] :
             q \in { OutFile(TargetDir("refseq", <<"1">>), <<"NC1", ".gbk">>),
                     OutFile(TargetDir("refseq", <<"1">>), <<"NC1", ".ptt">>),
                     OutFile(TargetDir("genbank", <<"3">>), <<"CP3", ".gbk">>) },
             c \in {<<>>, OldContent} }

\* -------------------------------------------------------------- errors
Exception(type, msg) == [type |-> type, msg |-> msg]
NoError == Exception("none", <<>>)
NoSuchFile == Exception("error_perm", <<"550", "No such file or directory">>)
PermissionDenied == Exception("error_perm", <<"550", "Permission denied">>)
ConnectionLost == Exception("socket.error", <<"Connection reset by peer">>)
ProjectDirectoryNotFound == Exception("AssertionError", <<"Failed to find folder for genome">>)
EmptyDownload == Exception("AssertionError", <<"File should have content now">>)


\* Line 232 as an equality.
IsNoSuchFileExactly(err) == err.msg = <<"No such file or directory">>

\* 'No such file or directory' in str(err)
IsNoSuchFile(err) == \E i \in DOMAIN err.msg : err.msg[i] = "No such file or directory"

VARIABLES
    pc,             \* where the call of download_genome_files stands
    genome,         \* its argument
    download_log,   \* its argument: whether a provenance log path was given
    projectid, project_dir, accessioncodes, target_dir,
    acc_i,          \* index of acc in accessioncodes
    ext,            \* the file of acc being downloaded: ".gbk" or ".ptt"
    gbk_file, genome_files,
    error,          \* the exception that left the call
    fs,             \* the cache directory: target path -> file
    fs0,            \* the cache directory before the first call
    scratch,        \* the files mkstemp made for this call, in order
    tmp_file,       \* index in scratch of the current temporary file
    provenance,     \* the lines of the provenance log file
    provenance0,    \* the lines it had when this call was made
    logged,         \* the records this call wrote to the log stream
    now,            \* time.time()
    conns,          \* the FTP connections this call made: "open" or "closed"
    calls, ticks,
    prev,           \* what the previous call returned and left on disk
    moved,          \* files moved into the cache by this call
    requests,       \* RETR commands sent by this call
    \* select_genomes_by_ids
    rpc,            \* where the call of select_genomes_by_ids stands
    records,        \* what _parse_genomes_table() returns
    genome_ids,     \* its argument
    refseq_genomes, genbank_genomes, matches,
    warned,         \* the query IDs of the warnings of line 31
    \* main
    mpc,            \* where main stands
    genomes_line,   \* --genomes, split on comma
    genomes_file,   \* --genomes-file: whether it is a non-empty path
    genomes,        \* the selected genomes, sorted by organism name
    gi,             \* index in genomes of the genome of the loop of line 313
    \* _parse_genomes_table
    ppc,            \* where the call of _parse_genomes_table stands
    complete_genome_table, require_refseq,  \* its arguments
    lines,          \* complete_genome_table.split('\n')
    line_i,         \* the lines of it that the loop of line 62 is done with
    columns, splitable_columns,
    parsed_genomes, \* the local list genomes
    appended_rows,  \* every dictionary that line 93 appended to it, in order
    perror,         \* the exception that left the call
    result,         \* what the call returned
    \* _download_genomes_table
    tpc,            \* where the call of _download_genomes_table stands
    genome_table,   \* the file complete-genomes-table.tsv
    table_time,     \* time.time() at the call
    content,        \* what the call returned
    http_requests,  \* the requests of line 43 made by this call
    table_calls,
    \* _get_colored_labels
    lpc,            \* where the call of _get_colored_labels stands
    label_genome,   \* its argument
    today,          \* datetime.today(): days since 1970-01-01, seconds of the day
    labels,         \* the labels added so far, each with its title
    lerror          \* the exception that left the call

dvars == << pc, genome, download_log, projectid, project_dir, accessioncodes,
            target_dir, acc_i, ext, gbk_file, genome_files, error, fs, fs0,
            scratch, tmp_file, provenance, provenance0, logged, now, conns,
            calls, ticks, prev, moved, requests >>

rvars == << rpc, records, genome_ids, refseq_genomes, genbank_genomes, matches, warned >>

mvars == << mpc, genomes_line, genomes_file, genomes, gi >>

pvars == << ppc, complete_genome_table, require_refseq, lines, line_i, columns,
            splitable_columns, parsed_genomes, appended_rows, perror, result >>

tvars == << tpc, genome_table, table_time, content, http_requests, table_calls >>

lvars == << lpc, label_genome, today, labels, lerror >>

vars == << dvars, rvars, mvars, pvars, tvars, lvars >>

\* ------------------------------------------------- _parse_genomes_table
Tab == "\t"
Newline == "\n"
Quote == "\""

\* str.split(sep) for a separator of one character
RECURSIVE Split(_, _)
Split(s, sep) ==
    IF \A i \in DOMAIN s : s[i] # sep
    THEN << s >>
    ELSE LET i == Min({j \in DOMAIN s : s[j] = sep})
         IN  << SubSeq(s, 1, i - 1) >> \o Split(SubSeq(s, i + 1, Len(s)), sep)

\* str.startswith
StartsWith(s, prefix) ==
    /\ Len(prefix) <= Len(s)
    /\ SubSeq(s, 1, Len(prefix)) = prefix

\* Line 69: values[0].startswith(('#', '"#'))
IsComment(values) ==
    \/ StartsWith(values[1], << "#" >>)
    \/ StartsWith(values[1], << Quote, "#" >>)

\* Line 71: '## Columns:'
ColumnsMarker == << "#", "#", " ", "C", "o", "l", "u", "m", "n", "s", ":" >>

\* Line 77: the suffixes of the headers of split-able columns.
CommaSuffix ==
    << " ", "(", "c", "o", "m", "m", "a", " ",
       "s", "e", "p", "a", "r", "a", "t", "e", "d", ")" >>
PipeSuffix ==
    << " ", "(", "p", "i", "p", "e", " ",
       "s", "e", "p", "a", "r", "a", "t", "e", "d", ")" >>
Suffixes == { << CommaSuffix, "," >>, << PipeSuffix, "|" >> }

\* Line 96: 'RefSeq project ID'
RefSeqProjectID ==
    << "R", "e", "f", "S", "e", "q", " ",
       "p", "r", "o", "j", "e", "c", "t", " ", "I", "D" >>

\* Line 73: [x[1:-1] for x in values[1:]]
ColumnNames(values) ==
    [i \in 1..(Len(values) - 1) |-> SubSeq(values[i + 1], 2, Len(values[i + 1]) - 1)]

\* Line 78: column.endswith(suffix), for one of the two suffixes.
HasSuffix(column) == \E sf \in Suffixes : EndsWith(column, sf[1])
SuffixOf(column) == CHOOSE sf \in Suffixes : EndsWith(column, sf[1])

\* Line 79: column[:-len(suffix)]
StripSuffix(column) ==
    IF HasSuffix(column)
    THEN SubSeq(column, 1, Len(column) - Len(SuffixOf(column)[1]))
    ELSE column

\* Lines 76-80: the entries the header line adds to splitable_columns.
Splitable(names) ==
    LET suffixed == SelectSeq(names, HasSuffix)
    IN  Dict([i \in DOMAIN suffixed |->
                << StripSuffix(suffixed[i]), SuffixOf(suffixed[i])[2] >>])

\* zip(columns, values)
Zip(cols, values) ==
    [i \in 1..Min({Len(cols), Len(values)}) |-> << cols[i], values[i] >>]

\* Line 92 without the test of the length.
SplitAlways(value, separator) == Split(value, separator)

\* Line 92: [] if len(value) in (0, 1) else value.split(separator)
SplitValue(value, separator) ==
    IF Len(value) \in {0, 1} THEN << >> ELSE Split(value, separator)

\* Lines 88-92: the dictionary of one line of the table.
Row(cols, values, splitable) ==
    LET d == Dict(Zip(cols, values))
    IN  [column \in DOMAIN d |->
            IF column \in DOMAIN splitable
            THEN SplitValue(d[column], splitable[column])
            ELSE d[column]]

\* Line 85 with columns left over allowed.
ColumnsCover(cols, values) == Len(cols) >= Len(values)

\* Line 85: assert len(columns) == len(values)
ColumnsMatch(cols, values) == Len(cols) = Len(values)

\* Line 84: the message of the assertion of line 85.
MalformedRow(expected, actual, line) ==
    Exception("AssertionError", << expected, actual, line >>)

KeyError == Exception("KeyError", << RefSeqProjectID >>)

ParserOff ==
    /\ ppc = "off"
    /\ complete_genome_table = << >> /\ require_refseq = FALSE
    /\ lines = << >> /\ line_i = 0
    /\ columns = << >> /\ splitable_columns = << >>
    /\ parsed_genomes = << >> /\ appended_rows = << >>
    /\ perror = NoError /\ result = << >>

\* Line 62: complete_genome_table.split('\n')
SplitLines ==
    /\ ppc = "start"
    /\ lines' = Split(complete_genome_table, Newline)
    /\ line_i' = 0
    /\ ppc' = "loop"
    /\ UNCHANGED << complete_genome_table, require_refseq, columns,
                    splitable_columns, parsed_genomes, appended_rows, perror, result >>

\* Lines 64-65: an empty line is ignored.
SkipEmptyLine ==
    /\ ppc = "loop" /\ line_i < Len(lines)
    /\ Len(lines[line_i + 1]) = 0
    /\ line_i' = line_i + 1
    /\ UNCHANGED << ppc, complete_genome_table, require_refseq, lines, columns,
                    splitable_columns, parsed_genomes, appended_rows, perror, result >>

\* Lines 67-81: a comment that is not the header line is ignored.
SkipComment ==
    /\ ppc = "loop" /\ line_i < Len(lines)
    /\ Len(lines[line_i + 1]) # 0
    /\ LET values == Split(lines[line_i + 1], Tab)
       IN  IsComment(values) /\ values[1] # ColumnsMarker
    /\ line_i' = line_i + 1
    /\ UNCHANGED << ppc, complete_genome_table, require_refseq, lines, columns,
                    splitable_columns, parsed_genomes, appended_rows, perror, result >>

\* Lines 71-81: the header line gives the column names.
ReadColumns ==
    /\ ppc = "loop" /\ line_i < Len(lines)
    /\ Len(lines[line_i + 1]) # 0
    /\ LET values == Split(lines[line_i + 1], Tab)
       IN  /\ IsComment(values) /\ values[1] = ColumnsMarker
           /\ columns' = [i \in DOMAIN ColumnNames(values) |->
                             StripSuffix(ColumnNames(values)[i])]
           /\ splitable_columns' =
                  Update(splitable_columns, Splitable(ColumnNames(values)))
    /\ line_i' = line_i + 1
    /\ UNCHANGED << ppc, complete_genome_table, require_refseq, lines,
                    parsed_genomes, appended_rows, perror, result >>

\* Lines 84-85: the assertion fails and the exception leaves the function.
RejectRow ==
    /\ ppc = "loop" /\ line_i < Len(lines)
    /\ Len(lines[line_i + 1]) # 0
    /\ LET values == Split(lines[line_i + 1], Tab)
       IN  /\ ~ IsComment(values)
           /\ ~ ColumnsMatch(columns, values)
           /\ perror' = MalformedRow(Len(columns), Len(values), lines[line_i + 1])
    /\ ppc' = "failed"
    /\ UNCHANGED << complete_genome_table, require_refseq, lines, line_i, columns,
                    splitable_columns, parsed_genomes, appended_rows, result >>

\* Line 96 without the condition of the comprehension.
Unfiltered(l) == l

\* Line 96: [genome for genome in genomes if genome['RefSeq project ID']]
WithRefSeq(l) == SelectSeq(l, LAMBDA g : g[RefSeqProjectID] # << >>)

\* Line 96: genome['RefSeq project ID'] of every genome of the list.
HasRefSeqKey(l) == \A i \in DOMAIN l : RefSeqProjectID \in DOMAIN l[i]

\* Lines 88-96: the line becomes a dictionary at the end of the list, and the
\* list is filtered if require_refseq is set.
AppendRow ==
    /\ ppc = "loop" /\ line_i < Len(lines)
    /\ Len(lines[line_i + 1]) # 0
    /\ LET values == Split(lines[line_i + 1], Tab)
           appended == Append(parsed_genomes, Row(columns, values, splitable_columns))
       IN  /\ ~ IsComment(values)
           /\ ColumnsMatch(columns, values)
           /\ require_refseq => HasRefSeqKey(appended)
           /\ parsed_genomes' = IF require_refseq THEN WithRefSeq(appended) ELSE appended
           /\ appended_rows' = Append(appended_rows, appended[Len(appended)])
    /\ line_i' = line_i + 1
    /\ UNCHANGED << ppc, complete_genome_table, require_refseq, lines, columns,
                    splitable_columns, perror, result >>

\* Line 96 on a table without the column 'RefSeq project ID'.
RowKeyError ==
    /\ ppc = "loop" /\ line_i < Len(lines)
    /\ Len(lines[line_i + 1]) # 0
    /\ LET values == Split(lines[line_i + 1], Tab)
           appended == Append(parsed_genomes, Row(columns, values, splitable_columns))
       IN  /\ ~ IsComment(values)
           /\ ColumnsMatch(columns, values)
           /\ require_refseq /\ ~ HasRefSeqKey(appended)
           /\ parsed_genomes' = appended
           /\ appended_rows' = Append(appended_rows, appended[Len(appended)])
    /\ perror' = KeyError
    /\ ppc' = "failed"
    /\ UNCHANGED << complete_genome_table, require_refseq, lines, line_i, columns,
                    splitable_columns, result >>

\* Line 99: return tuple(genomes)
ParseReturn ==
    /\ ppc = "loop" /\ line_i = Len(lines)
    /\ result' = parsed_genomes
    /\ ppc' = "returned"
    /\ UNCHANGED << complete_genome_table, require_refseq, lines, line_i, columns,
                    splitable_columns, parsed_genomes, appended_rows, perror >>



\* _find_project_dir with the project ID alone as the suffix.
find_project_dir_by_id(base_dir, id) ==
    LET directory_listing == nlst(base_dir)
        hits == {i \in DOMAIN directory_listing : EndsWith(directory_listing[i], id)}
    IN  IF hits = {} THEN None ELSE directory_listing[Min(hits)]


\* ----------------------------------------------- _download_genomes_table
\* Line 39: 24 * 60 * 60
time_between_downloads == 24 * 60 * 60

\* str.decode('iso-8859-1'): the code point of a character is its byte.
DecodeLatin1(bytes) == [i \in DOMAIN bytes |-> bytes[i]]

\* unicode.encode('utf-8'), for code points below 2048
RECURSIVE EncodeUtf8(_)
EncodeUtf8(text) ==
    IF Len(text) = 0 THEN << >>
    ELSE (IF text[1] < 128
          THEN << text[1] >>
          ELSE << 192 + (text[1] \div 64), 128 + (text[1] % 64) >>)
         \o EncodeUtf8(Tail(text))

\* str.decode('utf-8'), for sequences of one and two bytes
RECURSIVE DecodeUtf8(_)
DecodeUtf8(bytes) ==
    IF Len(bytes) = 0 THEN << >>
    ELSE IF bytes[1] < 128
         THEN << bytes[1] >> \o DecodeUtf8(Tail(bytes))
         ELSE << (bytes[1] - 192) * 64 + (bytes[2] - 128) >>
              \o DecodeUtf8(Tail(Tail(bytes)))

\* What the URL of line 42 may answer: nothing, "A" or the Latin-1 e acute.
Bodies == { << >>, << 65 >>, << 233 >> }

\* Line 40, negated: the file is there and not older than a day.
ReusesTable(f, time) == f.exists /\ ~ (f.mtime < time - time_between_downloads)

TableOff ==
    /\ tpc = "off"
    /\ genome_table = NoFile /\ table_time = 0
    /\ content = << >> /\ http_requests = 0 /\ table_calls = 0

\* A call of _download_genomes_table, at once or about a day after the last.
CallTable ==
    /\ tpc \in {"idle", "returned", "failed"}
    /\ table_calls < MaxTableCalls
    /\ \E d \in {0, time_between_downloads - 1, time_between_downloads,
                  time_between_downloads + 1} :
          table_time' = table_time + d
    /\ table_calls' = table_calls + 1
    /\ content' = << >> /\ http_requests' = 0
    /\ tpc' = "check"
    /\ UNCHANGED genome_table

\* Lines 46-49: the saved file is read and decoded.
ReadTable ==
    /\ tpc = "check"
    /\ ReusesTable(genome_table, table_time)
    /\ content' = DecodeUtf8(genome_table.content)
    /\ tpc' = "returned"
    /\ UNCHANGED << genome_table, table_time, http_requests, table_calls >>

\* Lines 41-45: the table is requested, decoded and saved as UTF-8.
FetchTable ==
    /\ tpc = "check"
    /\ ~ ReusesTable(genome_table, table_time)
    /\ \E body \in Bodies :
          /\ content' = DecodeLatin1(body)
          /\ genome_table' = File(EncodeUtf8(DecodeLatin1(body)), table_time)
    /\ http_requests' = http_requests + 1
    /\ tpc' = "returned"
    /\ UNCHANGED << table_time, table_calls >>

\* Line 43: the request raises and the exception leaves the function.
FetchFails ==
    /\ tpc = "check"
    /\ ~ ReusesTable(genome_table, table_time)
    /\ http_requests' = http_requests + 1
    /\ tpc' = "failed"
    /\ UNCHANGED << genome_table, table_time, content, table_calls >>

\* --------------------------------------------------- _get_colored_labels
DigitValue ==
    [c \in {"0", "1", "2", "3", "4", "5", "6", "7", "8", "9"} |->
        CASE c = "0" -> 0 [] c = "1" -> 1 [] c = "2" -> 2 [] c = "3" -> 3
          [] c = "4" -> 4 [] c = "5" -> 5 [] c = "6" -> 6 [] c = "7" -> 7
          [] c = "8" -> 8 [] c = "9" -> 9]

IsDigits(s) == Len(s) > 0 /\ \A i \in DOMAIN s : s[i] \in DOMAIN DigitValue

\* int(s) for a string of digits
RECURSIVE ToInt(_)
ToInt(s) ==
    IF Len(s) = 0 THEN 0
    ELSE 10 * ToInt(SubSeq(s, 1, Len(s) - 1)) + DigitValue[s[Len(s)]]

IsLeapYear(y) == (y % 4 = 0 /\ y % 100 # 0) \/ y % 400 = 0

DaysInMonth(y, m) ==
    IF m = 2 THEN (IF IsLeapYear(y) THEN 28 + 1 ELSE 28)
    ELSE IF m \in {4, 6, 9, 11} THEN 30 ELSE 31

\* The days from 1970-01-01 to the day d of month m of year y.
DaysFromCivil(y, m, d) ==
    LET yy == IF m <= 2 THEN y - 1 ELSE y
        era == yy \div 400
        yoe == yy - era * 400
        mp == (m + 9) % 12
        doy == (153 * mp + 2) \div 5 + d - 1
        doe == yoe * 365 + yoe \div 4 - yoe \div 100 + doy
    IN  era * 146097 + doe - 719468

\* Line 162 and lines 166, 172: datetime.strptime(s, '%m/%d/%Y'), a datetime
\* at midnight, or ValueError when s is not a date in this format and nothing
\* else.
Strptime(s) ==
    LET parts == Split(s, "/")
    IN  IF /\ Len(parts) = 3
           /\ IsDigits(parts[1]) /\ Len(parts[1]) <= 2
           /\ IsDigits(parts[2]) /\ Len(parts[2]) <= 2
           /\ IsDigits(parts[3]) /\ Len(parts[3]) = 4
           /\ ToInt(parts[1]) \in 1..12
           /\ ToInt(parts[2]) \in 1..DaysInMonth(ToInt(parts[3]), ToInt(parts[1]))
           /\ ToInt(parts[3]) >= 1
        THEN [ok |-> TRUE,
              value |-> << DaysFromCivil(ToInt(parts[3]), ToInt(parts[1]), ToInt(parts[2])), 0 >>]
        ELSE [ok |-> FALSE, value |-> << 0, 0 >>]

\* Line 163: datetime.today() - timedelta(days = 30)
day_limit == << today[1] - 30, today[2] >>

\* a < b for two datetimes
Before(a, b) == a[1] < b[1] \/ (a[1] = b[1] /\ a[2] < b[2])

\* Line 172: modified_date.split()[0]
FirstWord(s) == SelectSeq(Split(s, " "), LAMBDA w : Len(w) > 0)[1]

\* Line 178: float(genome_size) < 1, for digits with at most one point.
FloatBelowOne(s) ==
    LET parts == Split(s, ".")
        digits == IF Len(parts) = 1 THEN parts[1] ELSE parts[1] \o parts[2]
        places == IF Len(parts) = 1 THEN 0 ELSE Len(parts[2])
    IN  ToInt(digits) < 10 ^ places

ValueError == Exception("ValueError", << "time data does not match format" >>)

LabelsOff ==
    /\ lpc = "off"
    /\ label_genome = [Released_date |-> << >>, Modified_date |-> << >>,
                       Genome_Size |-> << >>]
    /\ today = << 0, 0 >>
    /\ labels = << >> /\ lerror = NoError

\* Lines 165-168: the label New!
LabelNew ==
    /\ lpc = "released"
    /\ LET released_date == label_genome.Released_date
       IN  IF released_date = << >>
           THEN lpc' = "modified" /\ UNCHANGED << labels, lerror >>
           ELSE IF ~ Strptime(released_date).ok
           THEN lpc' = "failed" /\ lerror' = ValueError /\ UNCHANGED labels
           ELSE /\ labels' = IF Before(day_limit, Strptime(released_date).value)
                             THEN Append(labels, << "New!", released_date >>)
                             ELSE labels
                /\ lpc' = "modified" /\ UNCHANGED lerror
    /\ UNCHANGED << label_genome, today >>

\* Lines 170-174: the label Updated!
LabelUpdated ==
    /\ lpc = "modified"
    /\ LET modified_date == label_genome.Modified_date
       IN  IF modified_date = << >>
           THEN lpc' = "size" /\ UNCHANGED << labels, lerror >>
           ELSE IF ~ Strptime(FirstWord(modified_date)).ok
           THEN lpc' = "failed" /\ lerror' = ValueError /\ UNCHANGED labels
           ELSE /\ labels' = IF Before(day_limit, Strptime(FirstWord(modified_date)).value)
                             THEN Append(labels, << "Updated!", modified_date >>)
                             ELSE labels
                /\ lpc' = "size" /\ UNCHANGED lerror
    /\ UNCHANGED << label_genome, today >>

\* Lines 176-181: the warning about a small genome.
LabelSmall ==
    /\ lpc = "size"
    /\ LET genome_size == label_genome.Genome_Size
       IN  labels' = IF genome_size # << >> /\ FloatBelowOne(genome_size)
                     THEN Append(labels, << "Only Mb!", genome_size >>)
                     ELSE labels
    /\ lpc' = "return"
    /\ UNCHANGED << label_genome, today, lerror >>

\* Line 183: return labels
LabelsReturn ==
    /\ lpc = "return"
    /\ lpc' = "returned"
    /\ UNCHANGED << label_genome, today, labels, lerror >>

\* ----------------------------------------------------- _find_project_dir
find_project_dir(base_dir, id) ==
    LET directory_listing == nlst(base_dir)
        dir_suffix == Uid \o id
        hits == {i \in DOMAIN directory_listing :
                    EndsWith(directory_listing[i], dir_suffix)}
    IN  IF hits = {} THEN None ELSE directory_listing[Min(hits)]

\* ------------------------------------------------- download_genome_files
NoPrev == [valid |-> FALSE, genome |-> G1, files |-> <<>>, fs |-> fs0]

DownloadInit(cache) ==
    /\ pc = "idle"
    /\ genome = G1
    /\ download_log = FALSE
    /\ projectid = None /\ project_dir = None
    /\ accessioncodes = <<>> /\ target_dir = None
    /\ acc_i = 1 /\ ext = ".gbk"
    /\ gbk_file = None /\ genome_files = <<>>
    /\ error = NoError
    /\ fs = cache
    /\ fs0 = cache
    /\ scratch = <<>> /\ tmp_file = 0
    /\ provenance = <<>> /\ provenance0 = <<>> /\ logged = <<>>
    /\ now = 0
    /\ conns = <<>>
    /\ calls = 0 /\ ticks = 0
    /\ prev = NoPrev
    /\ moved = 0 /\ requests = 0

\* The call is made at time; lines 191-192: ftp = FTP(host); ftp.login()
StartCall(g, dl, time) ==
    /\ genome' = g
    /\ download_log' = dl
    /\ conns' = <<"open">>
    /\ scratch' = <<>> /\ tmp_file' = 0
    /\ logged' = <<>>
    /\ prev' = IF pc = "returned"
               THEN [valid |-> TRUE, genome |-> genome, files |-> genome_files, fs |-> fs]
               ELSE NoPrev
    /\ projectid' = None /\ project_dir' = None
    /\ accessioncodes' = <<>> /\ target_dir' = None
    /\ acc_i' = 1 /\ ext' = ".gbk"
    /\ gbk_file' = None /\ genome_files' = <<>>
    /\ error' = NoError
    /\ moved' = 0 /\ requests' = 0
    /\ calls' = calls + 1
    /\ pc' = "refseq"
    /\ now' = time
    /\ ticks' = IF time = now THEN ticks ELSE ticks + 1
    /\ provenance0' = provenance
    /\ UNCHANGED << fs, fs0, provenance >>

Raise(err) ==
    /\ pc' = "failed"
    /\ error' = err

\* Lines 195-200: the RefSeq listing has the project directory.
FindRefSeqDir ==
    /\ pc = "refseq"
    /\ LET id == genome.RefSeq_project_ID
           dir == find_project_dir(RefSeqBase, id)
       IN  /\ dir # None
           /\ projectid' = id
           /\ project_dir' = dir
           /\ accessioncodes' = genome.List_of_RefSeq_accessions
           /\ target_dir' = TargetDir("refseq", id)
    /\ pc' = "log"
    /\ UNCHANGED << genome, download_log, acc_i, ext, gbk_file, genome_files,
                    error, fs, fs0, scratch, tmp_file, provenance, provenance0, logged, now,
                    conns, calls, ticks, prev, moved, requests >>

\* Lines 201-203: it has not; warn when there was a RefSeq project ID.
MissRefSeqDir ==
    /\ pc = "refseq"
    /\ LET id == genome.RefSeq_project_ID
       IN  /\ find_project_dir(RefSeqBase, id) = None
           /\ projectid' = id
           /\ logged' = IF id # None
                        THEN Append(logged, <<"warning", "Genome directory not found">>)
                        ELSE logged
    /\ pc' = "genbank"
    /\ UNCHANGED << genome, download_log, project_dir, accessioncodes, target_dir,
                    acc_i, ext, gbk_file, genome_files, error, fs, fs0, scratch,
                    tmp_file, provenance, provenance0, now, conns, calls, ticks, prev, moved,
                    requests >>

\* Lines 206-211: the GenBank listing has the project directory.
FindGenBankDir ==
    /\ pc = "genbank"
    /\ LET id == genome.Project_ID
           dir == find_project_dir(GenBankBase, id)
       IN  /\ dir # None
           /\ projectid' = id
           /\ project_dir' = dir
           /\ accessioncodes' = genome.List_of_GenBank_accessions
           /\ target_dir' = TargetDir("genbank", id)
    /\ pc' = "log"
    /\ UNCHANGED << genome, download_log, acc_i, ext, gbk_file, genome_files,
                    error, fs, fs0, scratch, tmp_file, provenance, provenance0, logged, now,
                    conns, calls, ticks, prev, moved, requests >>

\* Lines 212-216: neither listing has it; log the error, the assertion fails.
MissGenBankDir ==
    /\ pc = "genbank"
    /\ LET id == genome.Project_ID
       IN  /\ find_project_dir(GenBankBase, id) = None
           /\ projectid' = id
    /\ logged' = Append(logged, <<"error", "Genome directory not found">>)
    /\ Raise(ProjectDirectoryNotFound)
    /\ UNCHANGED << genome, download_log, project_dir, accessioncodes, target_dir,
                    acc_i, ext, gbk_file, genome_files, fs, fs0, scratch,
                    tmp_file, provenance, provenance0, now, conns, calls, ticks, prev, moved,
                    requests >>

\* ftp.nlst fails (line 248): the exception leaves the call.
NlstFails ==
    /\ pc \in {"refseq", "genbank"}
    /\ Raise(ConnectionLost)
    /\ UNCHANGED << genome, download_log, projectid, project_dir, accessioncodes,
                    target_dir, acc_i, ext, gbk_file, genome_files, fs, fs0,
                    scratch, tmp_file, provenance, provenance0, logged, now, conns, calls,
                    ticks, prev, moved, requests >>

\* Lines 222-223 with the RefSeq project ID of the genome.
ProvenanceLineOfRefSeq ==
    << genome.RefSeq_project_ID, genome.Organism_Name, host, project_dir >>

\* Lines 222-223: what the two writes put at the end of the file.
ProvenanceLine == << projectid, genome.Organism_Name, host, project_dir >>

\* Line 220 for the directories of the RefSeq listing only.
WritesLogOfRefSeq == download_log = TRUE /\ target_dir[1] = "refseq"

\* Line 220: if download_log
WritesLog == download_log = TRUE

\* Lines 220-223: one line of the provenance log, when a path was given.
WriteProvenance ==
    /\ pc = "log"
    /\ provenance' = IF WritesLog
                     THEN Append(provenance, ProvenanceLine)
                     ELSE provenance
    /\ pc' = "loop"
    /\ UNCHANGED << genome, download_log, projectid, project_dir, accessioncodes,
                    target_dir, acc_i, ext, gbk_file, genome_files, error, fs, fs0,
                    scratch, tmp_file, provenance0, logged, now, conns, calls,
                    ticks, prev, moved, requests >>

\* Line 227: the next accession code, its .gbk file first.
NextAccession ==
    /\ pc = "loop"
    /\ acc_i <= Len(accessioncodes)
    /\ ext' = ".gbk"
    /\ pc' = "download"
    /\ UNCHANGED << genome, download_log, projectid, project_dir, accessioncodes,
                    target_dir, acc_i, gbk_file, genome_files, error, fs, fs0,
                    scratch, tmp_file, provenance, provenance0, logged, now, conns, calls,
                    ticks, prev, moved, requests >>

\* Lines 240-243: ftp.close(); return genome_files
CloseAndReturn ==
    /\ pc = "loop"
    /\ acc_i > Len(accessioncodes)
    /\ conns' = [conns EXCEPT ![Len(conns)] = "closed"]
    /\ pc' = "returned"
    /\ UNCHANGED << genome, download_log, projectid, project_dir, accessioncodes,
                    target_dir, acc_i, ext, gbk_file, genome_files, error, fs, fs0,
                    scratch, tmp_file, provenance, provenance0, logged, now, calls, ticks,
                    prev, moved, requests >>

\* --------------------------------------------------- _download_genome_file
filename == <<accessioncodes[acc_i], ext>>
out_file == OutFile(target_dir, filename)

\* Line 263: 30 * 24 * 60 * 60
MonthSeconds == 30 * 24 * 60 * 60


\* Line 264 with the comparison of the times turned around.
SkipsOldFiles(f, time) ==
    ~ (\/ ~ f.exists
       \/ 0 = Len(f.content)
       \/ f.mtime > time - MonthSeconds)

\* Line 264, negated: the file is not retrieved again.
SkipsDownload(f, time) ==
    ~ (\/ ~ f.exists
       \/ 0 = Len(f.content)
       \/ f.mtime < time - MonthSeconds)

\* _download_genome_file has returned path (lines 228, 230) or the .ptt file was
\* found missing (line 234, path = None): go on with .ptt, or append the tuple
\* of line 237 and go on with the next accession code.
\* Line 237 for the accession codes that have a .ptt file only.
TriplesWithPtt(files, ptt_file) ==
    IF ptt_file = None THEN files ELSE Append(files, << projectid, gbk_file, ptt_file >>)

\* Line 237: genome_files.append((projectid, gbk_file, ptt_file))
Triples(files, ptt_file) == Append(files, << projectid, gbk_file, ptt_file >>)

Downloaded(path) ==
    IF ext = ".gbk"
    THEN /\ gbk_file' = path
         /\ ext' = ".ptt"
         /\ pc' = "download"
         /\ UNCHANGED << genome_files, acc_i >>
    ELSE /\ genome_files' = Triples(genome_files, path)
         /\ acc_i' = acc_i + 1
         /\ pc' = "loop"
         /\ UNCHANGED << gbk_file, ext >>

\* Line 264 false, line 285.
KeepCachedFile ==
    /\ pc = "download"
    /\ SkipsDownload(fs[out_file], now)
    /\ Downloaded(out_file)
    /\ UNCHANGED << genome, download_log, projectid, project_dir, accessioncodes,
                    target_dir, error, fs, fs0, scratch, tmp_file, provenance, provenance0,
                    logged, now, conns, calls, ticks, prev, moved, requests >>

\* Lines 264-277: mkstemp, open the temporary file for writing, send RETR.
BeginTransfer ==
    /\ pc = "download"
    /\ ~ SkipsDownload(fs[out_file], now)
    /\ scratch' = Append(scratch, File(<<>>, now))
    /\ tmp_file' = Len(scratch) + 1
    /\ logged' = Append(logged, <<"info", "Retrieving genome file">>)
    /\ requests' = requests + 1
    /\ pc' = "retr"
    /\ UNCHANGED << genome, download_log, projectid, project_dir, accessioncodes,
                    target_dir, acc_i, ext, gbk_file, genome_files, error, fs, fs0,
                    provenance, provenance0, now, conns, calls, ticks, prev, moved >>

remote == <<project_dir, filename>>

\* Lines 229-236 with a handler that recovers from every error_perm.
RetrRaisesUnlessPermanent(err) ==
    IF ext = ".ptt" /\ err.type = "error_perm"
    THEN /\ logged' = Append(logged, <<"warning", err.msg>>)
         /\ Downloaded(None)
         /\ UNCHANGED error
    ELSE /\ Raise(err)
         /\ UNCHANGED << logged, gbk_file, ext, genome_files, acc_i >>

\* An exception leaves _download_genome_file: lines 229-236 recover from an
\* error_perm of a .ptt file that says the file is not there, nothing else.
RetrRaises(err) ==
    IF ext = ".ptt" /\ err.type = "error_perm" /\ IsNoSuchFile(err)
    THEN /\ logged' = Append(logged, <<"warning", err.msg>>)
         /\ Downloaded(None)
         /\ UNCHANGED error
    ELSE /\ Raise(err)
         /\ UNCHANGED << logged, gbk_file, ext, genome_files, acc_i >>

\* The server answers RETR with 550: the file is not in the archive.
RetrNoSuchFile ==
    /\ pc = "retr"
    /\ remote \notin DOMAIN RemoteFiles
    /\ RetrRaises(NoSuchFile)
    /\ UNCHANGED << genome, download_log, projectid, project_dir, accessioncodes,
                    target_dir, fs, fs0, scratch, tmp_file, provenance, provenance0, now,
                    conns, calls, ticks, prev, moved, requests >>

\* The server answers RETR with another permanent error.
RetrRefused ==
    /\ pc = "retr"
    /\ Len(scratch[tmp_file].content) = 0
    /\ RetrRaises(PermissionDenied)
    /\ UNCHANGED << genome, download_log, projectid, project_dir, accessioncodes,
                    target_dir, fs, fs0, scratch, tmp_file, provenance, provenance0, now,
                    conns, calls, ticks, prev, moved, requests >>

\* The connection breaks before or between two blocks.
RetrInterrupted ==
    /\ pc = "retr"
    /\ RetrRaises(ConnectionLost)
    /\ UNCHANGED << genome, download_log, projectid, project_dir, accessioncodes,
                    target_dir, fs, fs0, scratch, tmp_file, provenance, provenance0, now,
                    conns, calls, ticks, prev, moved, requests >>

\* Lines 274-276: download_callback writes one block to the temporary file.
RetrBlock ==
    /\ pc = "retr"
    /\ remote \in DOMAIN RemoteFiles
    /\ LET got == Len(scratch[tmp_file].content)
       IN  /\ got < Len(RemoteFiles[remote])
           /\ scratch' = [scratch EXCEPT ![tmp_file] =
                            File(Append(@.content, RemoteFiles[remote][got + 1]), now)]
    /\ UNCHANGED << pc, genome, download_log, projectid, project_dir,
                    accessioncodes, target_dir, acc_i, ext, gbk_file, genome_files,
                    error, fs, fs0, tmp_file, provenance, provenance0, logged, now, conns,
                    calls, ticks, prev, moved, requests >>


\* Line 280 without the test of the size.
IsFile(f) == f.exists

\* Line 280: the temporary file is a file with content.
HasContent(f) == f.exists /\ 0 < Len(f.content)

\* Line 283: shutil.move(tmp_file, out_file)
Move(files, tmp, path) == [files EXCEPT ![path] = tmp]

\* The transfer is complete: lines 280-285.
FinishTransfer ==
    /\ pc = "retr"
    /\ remote \in DOMAIN RemoteFiles
    /\ Len(scratch[tmp_file].content) = Len(RemoteFiles[remote])
    /\ HasContent(scratch[tmp_file])
    /\ fs' = Move(fs, scratch[tmp_file], out_file)
    /\ scratch' = [scratch EXCEPT ![tmp_file] = NoFile]
    /\ moved' = moved + 1
    /\ Downloaded(out_file)
    /\ UNCHANGED << genome, download_log, projectid, project_dir, accessioncodes,
                    target_dir, error, fs0, tmp_file, provenance, provenance0, logged, now,
                    conns, calls, ticks, prev, requests >>

\* The transfer is complete and the assertion of line 280 fails.
RejectEmptyTransfer ==
    /\ pc = "retr"
    /\ remote \in DOMAIN RemoteFiles
    /\ Len(scratch[tmp_file].content) = Len(RemoteFiles[remote])
    /\ ~ HasContent(scratch[tmp_file])
    /\ Raise(EmptyDownload)
    /\ UNCHANGED << genome, download_log, projectid, project_dir, accessioncodes,
                    target_dir, acc_i, ext, gbk_file, genome_files, fs, fs0,
                    scratch, tmp_file, provenance, provenance0, logged, now, conns, calls,
                    ticks, prev, moved, requests >>

\* ------------------------------------------- a caller of the public function
\* The time between two calls: none, or a little less than the 30 days of line
\* 263, exactly 30 days, a little more.
TickSteps == {MonthSeconds - 1, MonthSeconds, MonthSeconds + 1}

\* download_genome_files is called for any genome, with or without a log path.
CallDownload ==
    /\ pc \in {"idle", "returned", "failed"}
    /\ calls < MaxCalls
    /\ \E g \in Genomes, dl \in BOOLEAN, d \in {0} \cup TickSteps :
          /\ d # 0 => (calls > 0 /\ ticks < MaxTicks)
          /\ StartCall(g, dl, now + d)

\* -------------------------------------------------- select_genomes_by_ids
ResolverOff ==
    /\ rpc = "off"
    /\ records = <<>> /\ genome_ids = <<>>
    /\ refseq_genomes = <<>> /\ genbank_genomes = <<>>
    /\ matches = <<>> /\ warned = <<>>

\* Lines 18-19: the two dictionaries of the genomes of the table.
BuildIndex ==
    /\ rpc = "build"
    /\ refseq_genomes' = Dict([i \in DOMAIN records |->
                                 <<records[i].RefSeq_project_ID, records[i]>>])
    /\ genbank_genomes' = Dict([i \in DOMAIN records |->
                                  <<records[i].Project_ID, records[i]>>])
    /\ rpc' = "assert"
    /\ UNCHANGED << records, genome_ids, matches, warned >>


\* Line 22 as a test that the key sets differ.
IsDifferent(a, b) == DOMAIN a # DOMAIN b

\* Line 22: set(refseq_genomes).isdisjoint(set(genbank_genomes))
IsDisjoint(a, b) == DOMAIN a \cap DOMAIN b = {}

AssertDisjoint ==
    /\ rpc = "assert"
    /\ IsDisjoint(refseq_genomes, genbank_genomes)
    /\ rpc' = "match"
    /\ UNCHANGED << records, genome_ids, refseq_genomes, genbank_genomes, matches, warned >>

AssertDisjointFails ==
    /\ rpc = "assert"
    /\ ~ IsDisjoint(refseq_genomes, genbank_genomes)
    /\ rpc' = "failed"
    /\ UNCHANGED << records, genome_ids, refseq_genomes, genbank_genomes, matches, warned >>

\* dict((queryid, index[queryid]) for queryid in ids if queryid in index)
Lookup(ids, index) ==
    LET found == SelectSeq(ids, LAMBDA queryid : queryid \in DOMAIN index)
    IN  Dict([i \in DOMAIN found |-> <<found[i], index[found[i]]>>])


\* Lines 25-26 the other way around.
MatchesGenBankFirst(ids, refseq, genbank) == Update(Lookup(ids, genbank), Lookup(ids, refseq))

\* Line 25 alone.
MatchesRefSeqOnly(ids, refseq, genbank) == Lookup(ids, refseq)

\* Lines 25-26.
Matches(ids, refseq, genbank) == Update(Lookup(ids, refseq), Lookup(ids, genbank))

MatchIds ==
    /\ rpc = "match"
    /\ matches' = Matches(genome_ids, refseq_genomes, genbank_genomes)
    /\ rpc' = "warn"
    /\ UNCHANGED << records, genome_ids, refseq_genomes, genbank_genomes, warned >>

\* Lines 29-33: warn about every query ID without a match, return matches.
WarnUnmatched ==
    /\ rpc = "warn"
    /\ warned' = SelectSeq(genome_ids, LAMBDA queryid : queryid \notin DOMAIN matches)
    /\ rpc' = "returned"
    /\ UNCHANGED << records, genome_ids, refseq_genomes, genbank_genomes, matches >>

\* -------------------------------------------------------------------- main
MainOff ==
    /\ mpc = "off"
    /\ genomes_line = <<>> /\ genomes_file = FALSE
    /\ genomes = <<>> /\ gi = 0

\* Lines 302-303.
minimum == 2
maximum == 40

\* Line 299: [val for val in genomes_line.split(',') if val]
NonEmpty(vals) == SelectSeq(vals, LAMBDA val : val # None)

\* Lines 296-306: too few or too many genome IDs: sys.exit(1)
MainRejects ==
    /\ mpc = "start"
    /\ LET ids == NonEmpty(genomes_line)
       IN  ~ (minimum <= Len(ids) /\ Len(ids) <= maximum)
    /\ mpc' = "exit"
    /\ UNCHANGED << genomes_line, genomes_file, genomes, gi >>
    /\ UNCHANGED << rvars, dvars, pvars, tvars, lvars >>

\* Lines 296-309: the call of select_genomes_by_ids.
MainSelects ==
    /\ mpc = "start"
    /\ LET ids == NonEmpty(genomes_line)
       IN  /\ minimum <= Len(ids) /\ Len(ids) <= maximum
           /\ genome_ids' = ids
    /\ rpc' = "build"
    /\ mpc' = "select"
    /\ UNCHANGED << records, refseq_genomes, genbank_genomes, matches, warned >>
    /\ UNCHANGED << genomes_line, genomes_file, genomes, gi >>
    /\ UNCHANGED << dvars, pvars, tvars, lvars >>

\* The lists dict.values() may return: one value per key, in any order.
Values(d) ==
    LET n == Cardinality(DOMAIN d)
    IN  { [i \in 1..n |-> d[ks[i]]] :
            ks \in {f \in [1..n -> DOMAIN d] : \A i, j \in 1..n : i # j => f[i] # f[j]} }

\* sorted(l, key = itemgetter('Organism Name')) is l in an order that is
\* ascending in the name and keeps the order of l among equal names.
IsSortedOf(sorted, l) ==
    \E perm \in [DOMAIN l -> DOMAIN l] :
        /\ \A i, j \in DOMAIN l : i # j => perm[i] # perm[j]
        /\ sorted = [i \in DOMAIN l |-> l[perm[i]]]
        /\ \A i, j \in DOMAIN l : i < j =>
              \/ l[perm[i]].Organism_Name < l[perm[j]].Organism_Name
              \/ /\ l[perm[i]].Organism_Name = l[perm[j]].Organism_Name
                 /\ perm[i] < perm[j]

Sorted(l) == CHOOSE s \in [DOMAIN l -> Range(l)] : IsSortedOf(s, l)

\* Lines 309-310.
MainSorts ==
    /\ mpc = "select"
    /\ rpc = "returned"
    /\ \E l \in Values(matches) : genomes' = Sorted(l)
    /\ gi' = 0
    /\ mpc' = "loop"
    /\ UNCHANGED << genomes_line, genomes_file >>
    /\ UNCHANGED << rvars, dvars, pvars, tvars, lvars >>

\* Lines 313-315: the next genome of the loop.
MainDownloads ==
    /\ mpc = "loop"
    /\ pc \in {"idle", "returned"}
    /\ gi < Len(genomes)
    /\ gi' = gi + 1
    /\ StartCall(genomes[gi + 1], genomes_file, now)
    /\ UNCHANGED << mpc, genomes_line, genomes_file, genomes >>
    /\ UNCHANGED << rvars, pvars, tvars, lvars >>

\* Line 318: the loop is over.
MainEnds ==
    /\ mpc = "loop"
    /\ pc \in {"idle", "returned"}
    /\ gi = Len(genomes)
    /\ mpc' = "done"
    /\ UNCHANGED << genomes_line, genomes_file, genomes, gi >>
    /\ UNCHANGED << rvars, dvars, pvars, tvars, lvars >>


\* The call of line 315 in a try block that goes on with the next genome.
MainSkipsFailedGenome ==
    /\ mpc = "loop" /\ pc = "failed"
    /\ pc' = "idle"
    /\ UNCHANGED << genome, download_log, projectid, project_dir, accessioncodes,
                    target_dir, acc_i, ext, gbk_file, genome_files, error, fs, fs0,
                    scratch, tmp_file, provenance, provenance0, logged, now, conns, calls,
                    ticks, prev, moved, requests >>
    /\ UNCHANGED << rvars, mvars, pvars, tvars, lvars >>

\* Lines 309 and 315 are in no try block: an exception of the call leaves main.
MainAborts ==
    /\ \/ mpc = "select" /\ rpc = "failed"
       \/ mpc = "loop" /\ pc = "failed"
    /\ mpc' = "failed"
    /\ UNCHANGED << genomes_line, genomes_file, genomes, gi >>
    /\ UNCHANGED << rvars, dvars, pvars, tvars, lvars >>

\* ------------------------------------------------------- the specifications
\* download_genome_files, called by any caller.
DownloadNext ==
    \/ CallDownload /\ UNCHANGED << rvars, mvars, pvars, tvars, lvars >>
    \/ FindRefSeqDir /\ UNCHANGED << rvars, mvars, pvars, tvars, lvars >>
    \/ MissRefSeqDir /\ UNCHANGED << rvars, mvars, pvars, tvars, lvars >>
    \/ FindGenBankDir /\ UNCHANGED << rvars, mvars, pvars, tvars, lvars >>
    \/ MissGenBankDir /\ UNCHANGED << rvars, mvars, pvars, tvars, lvars >>
    \/ NlstFails /\ UNCHANGED << rvars, mvars, pvars, tvars, lvars >>
    \/ WriteProvenance /\ UNCHANGED << rvars, mvars, pvars, tvars, lvars >>
    \/ NextAccession /\ UNCHANGED << rvars, mvars, pvars, tvars, lvars >>
    \/ CloseAndReturn /\ UNCHANGED << rvars, mvars, pvars, tvars, lvars >>
    \/ KeepCachedFile /\ UNCHANGED << rvars, mvars, pvars, tvars, lvars >>
    \/ BeginTransfer /\ UNCHANGED << rvars, mvars, pvars, tvars, lvars >>
    \/ RetrNoSuchFile /\ UNCHANGED << rvars, mvars, pvars, tvars, lvars >>
    \/ RetrRefused /\ UNCHANGED << rvars, mvars, pvars, tvars, lvars >>
    \/ RetrInterrupted /\ UNCHANGED << rvars, mvars, pvars, tvars, lvars >>
    \/ RetrBlock /\ UNCHANGED << rvars, mvars, pvars, tvars, lvars >>
    \/ FinishTransfer /\ UNCHANGED << rvars, mvars, pvars, tvars, lvars >>
    \/ RejectEmptyTransfer /\ UNCHANGED << rvars, mvars, pvars, tvars, lvars >>

DownloadInits == \E cache \in InitialCaches : DownloadInit(cache) /\ ResolverOff /\ MainOff /\ ParserOff /\ TableOff /\ LabelsOff

SpecDownload == DownloadInits /\ [][DownloadNext]_vars

\* select_genomes_by_ids, called with any list of IDs over any small table.
QueryIds == {<<>>, <<"1">>, <<"2">>, <<"9">>}

TableRows ==
    { Genome(rs, gb, 1, <<>>, <<>>) :
        rs \in {<<>>, <<"1">>, <<"2">>}, gb \in {<<"1">>, <<"2">>, <<"3">>} }

EmptyCache == [p \in TargetPaths |-> NoFile]

ResolveInit ==
    \E cache \in {EmptyCache} :
    /\ rpc = "build"
    /\ records \in SeqsUpTo(TableRows, MaxRecords)
    /\ genome_ids \in SeqsUpTo(QueryIds, MaxIds)
    /\ refseq_genomes = <<>> /\ genbank_genomes = <<>>
    /\ matches = <<>> /\ warned = <<>>
    /\ DownloadInit(cache)
    /\ MainOff
    /\ ParserOff
    /\ TableOff
    /\ LabelsOff

ResolveNext ==
    \/ BuildIndex /\ UNCHANGED << dvars, mvars, pvars, tvars, lvars >>
    \/ AssertDisjoint /\ UNCHANGED << dvars, mvars, pvars, tvars, lvars >>
    \/ AssertDisjointFails /\ UNCHANGED << dvars, mvars, pvars, tvars, lvars >>
    \/ MatchIds /\ UNCHANGED << dvars, mvars, pvars, tvars, lvars >>
    \/ WarnUnmatched /\ UNCHANGED << dvars, mvars, pvars, tvars, lvars >>

SpecResolve == ResolveInit /\ [][ResolveNext]_vars

\* Lines 24-33 alone, over two hand-made dictionaries that need not be disjoint.
RA == Genome(<<"1">>, <<"2">>, 1, <<>>, <<>>)
RB == Genome(<<"2">>, <<"1">>, 2, <<>>, <<>>)

Dicts == UNION { [ks -> {RA, RB}] : ks \in SUBSET {<<"1">>, <<"2">>} }

MatchInit ==
    \E cache \in {EmptyCache} :
    /\ rpc = "match"
    /\ records = <<>>
    /\ genome_ids \in SeqsUpTo(QueryIds, MaxIds)
    /\ refseq_genomes \in Dicts /\ genbank_genomes \in Dicts
    /\ matches = <<>> /\ warned = <<>>
    /\ DownloadInit(cache)
    /\ MainOff
    /\ ParserOff
    /\ TableOff
    /\ LabelsOff

MatchNext ==
    \/ MatchIds /\ UNCHANGED << dvars, mvars, pvars, tvars, lvars >>
    \/ WarnUnmatched /\ UNCHANGED << dvars, mvars, pvars, tvars, lvars >>

SpecMatch == MatchInit /\ [][MatchNext]_vars

\* main, run once on a cache that is empty.
MainTable == <<G1, G2, G3, G4>>
\* A table in which the RefSeq project ID of one genome is the project ID of
\* another.
CollidingTable == <<G1, Genome(<<"2">>, <<"8">>, 4, <<>>, <<>>)>>

MainIds == {<<>>, <<"1">>, <<"2">>, <<"3">>, <<"4">>, <<"9">>}

MainInit ==
    \E cache \in {EmptyCache} :
    /\ mpc = "start"
    /\ genomes_line \in SeqsUpTo(MainIds, MaxIds)
    /\ genomes_file \in BOOLEAN
    /\ genomes = <<>> /\ gi = 0
    /\ rpc = "off"
    /\ records \in {MainTable, CollidingTable}
    /\ genome_ids = <<>>
    /\ refseq_genomes = <<>> /\ genbank_genomes = <<>>
    /\ matches = <<>> /\ warned = <<>>
    /\ DownloadInit(cache)
    /\ ParserOff
    /\ TableOff
    /\ LabelsOff

MainNext ==
    \/ MainRejects
    \/ MainSelects
    \/ MainSorts
    \/ MainDownloads
    \/ MainEnds
    \/ MainAborts
    \/ BuildIndex /\ UNCHANGED << dvars, mvars, pvars, tvars, lvars >>
    \/ AssertDisjoint /\ UNCHANGED << dvars, mvars, pvars, tvars, lvars >>
    \/ AssertDisjointFails /\ UNCHANGED << dvars, mvars, pvars, tvars, lvars >>
    \/ MatchIds /\ UNCHANGED << dvars, mvars, pvars, tvars, lvars >>
    \/ WarnUnmatched /\ UNCHANGED << dvars, mvars, pvars, tvars, lvars >>
    \/ FindRefSeqDir /\ UNCHANGED << rvars, mvars, pvars, tvars, lvars >>
    \/ MissRefSeqDir /\ UNCHANGED << rvars, mvars, pvars, tvars, lvars >>
    \/ FindGenBankDir /\ UNCHANGED << rvars, mvars, pvars, tvars, lvars >>
    \/ MissGenBankDir /\ UNCHANGED << rvars, mvars, pvars, tvars, lvars >>
    \/ NlstFails /\ UNCHANGED << rvars, mvars, pvars, tvars, lvars >>
    \/ WriteProvenance /\ UNCHANGED << rvars, mvars, pvars, tvars, lvars >>
    \/ NextAccession /\ UNCHANGED << rvars, mvars, pvars, tvars, lvars >>
    \/ CloseAndReturn /\ UNCHANGED << rvars, mvars, pvars, tvars, lvars >>
    \/ KeepCachedFile /\ UNCHANGED << rvars, mvars, pvars, tvars, lvars >>
    \/ BeginTransfer /\ UNCHANGED << rvars, mvars, pvars, tvars, lvars >>
    \/ RetrNoSuchFile /\ UNCHANGED << rvars, mvars, pvars, tvars, lvars >>
    \/ RetrRefused /\ UNCHANGED << rvars, mvars, pvars, tvars, lvars >>
    \/ RetrInterrupted /\ UNCHANGED << rvars, mvars, pvars, tvars, lvars >>
    \/ RetrBlock /\ UNCHANGED << rvars, mvars, pvars, tvars, lvars >>
    \/ FinishTransfer /\ UNCHANGED << rvars, mvars, pvars, tvars, lvars >>
    \/ RejectEmptyTransfer /\ UNCHANGED << rvars, mvars, pvars, tvars, lvars >>

Spec == MainInit /\ [][MainNext]_vars

\* _parse_genomes_table, called on any table of a few lines.
EmptyLine == << >>
HashComment == << "#", "c" >>
QuotedComment == << Quote, "#", "c", Tab, "d" >>
ColumnsLine2 ==
    ColumnsMarker \o << Tab, Quote >> \o RefSeqProjectID \o << Quote >>
                  \o << Tab, Quote, "L" >> \o CommaSuffix \o << Quote >>
ColumnsLine1 == ColumnsMarker \o << Tab, Quote, "P" >> \o PipeSuffix \o << Quote >>
\* A header line that declares L again, as a column of plain values.
ColumnsLine0 == ColumnsMarker \o << Tab, Quote, "L", Quote >>
TableLines ==
    { EmptyLine, HashComment, QuotedComment, ColumnsLine2, ColumnsLine1, ColumnsLine0,
      << "1", Tab, "a", ",", "b" >>, << Tab, "c" >>, << "x", "|", "y" >>,
      << "1", Tab, "a", Tab, "b" >> }

\* '\n'.join(ls)
RECURSIVE Join(_)
Join(ls) ==
    IF Len(ls) = 0 THEN << >>
    ELSE IF Len(ls) = 1 THEN ls[1]
    ELSE ls[1] \o << Newline >> \o Join(Tail(ls))

Tables == { Join(ls) : ls \in SeqsUpTo(TableLines, MaxLines) }

ParseInit ==
    \E cache \in {EmptyCache} :
    /\ ppc = "start"
    /\ complete_genome_table \in Tables
    /\ require_refseq \in BOOLEAN
    /\ lines = << >> /\ line_i = 0
    /\ columns = << >> /\ splitable_columns = << >>
    /\ parsed_genomes = << >> /\ appended_rows = << >>
    /\ perror = NoError /\ result = << >>
    /\ DownloadInit(cache)
    /\ ResolverOff
    /\ MainOff
    /\ TableOff
    /\ LabelsOff

ParseNext ==
    \/ SplitLines /\ UNCHANGED << dvars, rvars, mvars, tvars, lvars >>
    \/ SkipEmptyLine /\ UNCHANGED << dvars, rvars, mvars, tvars, lvars >>
    \/ SkipComment /\ UNCHANGED << dvars, rvars, mvars, tvars, lvars >>
    \/ ReadColumns /\ UNCHANGED << dvars, rvars, mvars, tvars, lvars >>
    \/ RejectRow /\ UNCHANGED << dvars, rvars, mvars, tvars, lvars >>
    \/ AppendRow /\ UNCHANGED << dvars, rvars, mvars, tvars, lvars >>
    \/ RowKeyError /\ UNCHANGED << dvars, rvars, mvars, tvars, lvars >>
    \/ ParseReturn /\ UNCHANGED << dvars, rvars, mvars, tvars, lvars >>

SpecParse == ParseInit /\ [][ParseNext]_vars

\* _download_genomes_table, called a few times on any saved file.
SavedTables == { NoFile, File(<< >>, 0), File(<< 65 >>, 0), File(<< 195, 169 >>, 0) }

TableInit ==
    \E cache \in {EmptyCache} :
    /\ tpc = "idle"
    /\ genome_table \in SavedTables
    /\ table_time = 0
    /\ content = << >> /\ http_requests = 0 /\ table_calls = 0
    /\ DownloadInit(cache)
    /\ ResolverOff
    /\ MainOff
    /\ ParserOff
    /\ LabelsOff

TableNext ==
    \/ CallTable /\ UNCHANGED << dvars, rvars, mvars, pvars, lvars >>
    \/ ReadTable /\ UNCHANGED << dvars, rvars, mvars, pvars, lvars >>
    \/ FetchTable /\ UNCHANGED << dvars, rvars, mvars, pvars, lvars >>
    \/ FetchFails /\ UNCHANGED << dvars, rvars, mvars, pvars, lvars >>

SpecTable == TableInit /\ [][TableNext]_vars

\* _get_colored_labels, called on 15 March 2011 for a genome with any of a
\* few dates, with and without a time of day, and sizes.
SomeTime == << " ", "1", "7", ":", "3", "8", ":", "4", "0" >>
Feb12 == << "0", "2", "/", "1", "2", "/", "2", "0", "1", "1" >>
Feb13 == << "0", "2", "/", "1", "3", "/", "2", "0", "1", "1" >>
Feb14 == << "0", "2", "/", "1", "4", "/", "2", "0", "1", "1" >>
Dates == { << >> } \cup { d \o t : d \in {Feb12, Feb13, Feb14}, t \in {<< >>, SomeTime} }
Sizes == { << >>, << "0", ".", "5" >>, << "1", ".", "0" >>, << "1", ".", "5" >> }
Noon == 12 * 60 * 60

LabelsInit ==
    \E cache \in {EmptyCache} :
    /\ lpc = "released"
    /\ label_genome \in [Released_date : Dates, Modified_date : Dates, Genome_Size : Sizes]
    /\ today \in { << DaysFromCivil(2011, 3, 15), t >> : t \in {0, Noon} }
    /\ labels = << >> /\ lerror = NoError
    /\ DownloadInit(cache)
    /\ ResolverOff
    /\ MainOff
    /\ ParserOff
    /\ TableOff

LabelsNext ==
    \/ LabelNew /\ UNCHANGED << dvars, rvars, mvars, pvars, tvars >>
    \/ LabelUpdated /\ UNCHANGED << dvars, rvars, mvars, pvars, tvars >>
    \/ LabelSmall /\ UNCHANGED << dvars, rvars, mvars, pvars, tvars >>
    \/ LabelsReturn /\ UNCHANGED << dvars, rvars, mvars, pvars, tvars >>

SpecLabels == LabelsInit /\ [][LabelsNext]_vars

\* ===================================================== the claims, checked
\* The listing under base_dir has a directory for the project ID.
HasDirectory(base_dir, id) ==
    \E i \in DOMAIN nlst(base_dir) : EndsWith(nlst(base_dir)[i], Uid \o id)

\* C1: download_genome_files takes the RefSeq directory, accession list and
\* refseq/<id> target whenever the RefSeq listing has a directory for the
\* RefSeq project ID, the GenBank ones only when it has none, and fails with the
\* assertion of line 215 exactly when neither listing has one (unless a listing
\* itself failed); then no file was requested or moved.
C1_NamespacePriority ==
    LET rs == genome.RefSeq_project_ID
        gb == genome.Project_ID
        inRefSeq == HasDirectory(RefSeqBase, rs)
        inGenBank == HasDirectory(GenBankBase, gb)
    IN  /\ project_dir # None =>
             IF inRefSeq
             THEN /\ project_dir \in Range(nlst(RefSeqBase))
                  /\ EndsWith(project_dir, Uid \o rs)
                  /\ projectid = rs
                  /\ accessioncodes = genome.List_of_RefSeq_accessions
                  /\ target_dir = <<"refseq", rs>>
             ELSE /\ inGenBank
                  /\ project_dir \in Range(nlst(GenBankBase))
                  /\ EndsWith(project_dir, Uid \o gb)
                  /\ projectid = gb
                  /\ accessioncodes = genome.List_of_GenBank_accessions
                  /\ target_dir = <<"genbank", gb>>
        /\ (pc = "failed" /\ error = ProjectDirectoryNotFound) =>
             ~ inRefSeq /\ ~ inGenBank /\ requests = 0 /\ moved = 0
        /\ (~ inRefSeq /\ ~ inGenBank /\ pc \notin {"idle", "refseq", "genbank"}) =>
             /\ pc = "failed"
             /\ error \in {ProjectDirectoryNotFound, ConnectionLost}
             /\ project_dir = None /\ requests = 0 /\ moved = 0

\* A call fell back to the GenBank directory of a genome with a RefSeq project ID.
C1_Witness ==
    /\ pc = "failed" /\ error = NoSuchFile
    /\ genome = G4 /\ target_dir = <<"genbank", <<"7">>>>

\* A call failed because no listing has the directory.
C1_WitnessNotFound == pc = "failed" /\ error = ProjectDirectoryNotFound /\ genome = G3

\* C2: a target path holds what it held before the first call or the whole,
\* non-empty content of a file of the archive; the cache changes only by the
\* move of a temporary file whose transfer is complete and not empty, so a
\* transfer that fails leaves the target as it was.
C2_TargetsWhole ==
    \A p \in DOMAIN fs :
        \/ fs[p] = fs0[p]
        \/ /\ fs[p].exists
           /\ Len(fs[p].content) > 0
           /\ \E r \in DOMAIN RemoteFiles : r[2] = p[3] /\ fs[p].content = RemoteFiles[r]

C2_MoveStep ==
    fs' # fs =>
        /\ pc = "retr"
        /\ remote \in DOMAIN RemoteFiles
        /\ scratch[tmp_file].content = RemoteFiles[remote]
        /\ Len(scratch[tmp_file].content) > 0
        /\ fs' = [fs EXCEPT ![out_file] = scratch[tmp_file]]

C2_AtomicCache == [] C2_TargetsWhole /\ [][C2_MoveStep]_vars

\* A transfer broke after the first of two blocks and the old file is in place.
C2_Witness ==
    /\ pc = "failed" /\ error = ConnectionLost
    /\ tmp_file > 0
    /\ scratch[tmp_file].content = <<Block("NC1", ".gbk", 1)>>
    /\ fs[out_file] = File(OldContent, 0)

\* isFresh(path, 30 days) as the specification states it.
IsFresh(f, time) == f.exists /\ Len(f.content) # 0 /\ f.mtime > time - MonthSeconds

\* C3: the download is skipped if and only if the target file exists, is not
\* empty and was modified strictly later than 30 days ago; a skip sends no
\* request and leaves the file as it is.
C3_SkipStep ==
    pc = "download" =>
        /\ (pc' # "retr") <=> IsFresh(fs[out_file], now)
        /\ pc' # "retr" => (requests' = requests /\ fs' = fs)

C3_SkipIffFresh == [][C3_SkipStep]_vars

\* C4: a call for the genome of the call before it, which returned, made while
\* every file that call returned is less than 30 days old, moves no file into
\* the cache, returns the same tuples and leaves the cache as it was.
WithinWindow ==
    \A i \in DOMAIN prev.files : \A k \in {2, 3} :
        prev.files[i][k] # None =>
            now - prev.fs[prev.files[i][k]].mtime < MonthSeconds

C4_Idempotent ==
    (pc = "returned" /\ prev.valid /\ prev.genome = genome /\ WithinWindow) =>
        /\ moved = 0
        /\ genome_files = prev.files
        /\ fs = prev.fs

\* The second of two calls for G1 returned, nearly 30 days after the first.
C4_Witness ==
    /\ pc = "returned" /\ prev.valid /\ prev.genome = G1 /\ genome = G1
    /\ WithinWindow /\ now = MonthSeconds - 1 /\ Len(genome_files) = 2

\* C5: when the server answers the RETR of a .ptt file with 'No such file or
\* directory', the call does not fail: the tuple of the accession code gets
\* its .gbk path and None, and the loop goes on with the next accession code.
C5_AbsentStep ==
    (/\ pc = "retr" /\ ext = ".ptt"
     /\ remote \notin DOMAIN RemoteFiles
     /\ ~ (pc' = "failed" /\ error' \in {PermissionDenied, ConnectionLost})) =>
        /\ pc' = "loop"
        /\ error' = NoError
        /\ genome_files' = Append(genome_files, <<projectid, gbk_file, None>>)
        /\ gbk_file # None
        /\ acc_i' = acc_i + 1

C5_PttAbsent ==
    /\ [] (pc = "returned" => Len(genome_files) = Len(accessioncodes))
    /\ [][C5_AbsentStep]_vars

\* NC1.ptt was absent and the files of NC2 were downloaded after it.
C5_Witness ==
    /\ pc = "returned" /\ genome = G1
    /\ genome_files[1] = <<<<"1">>, <<"refseq", <<"1">>, <<"NC1", ".gbk">>>>, None>>
    /\ Len(genome_files) = 2
    /\ genome_files[2][3] # None
    /\ moved = 3

\* The keys of the two dictionaries, read off the records.
RefSeqIds == {records[i].RefSeq_project_ID : i \in DOMAIN records}
GenBankIds == {records[i].Project_ID : i \in DOMAIN records}

C7_Disjointness ==
    LET collide == RefSeqIds \cap GenBankIds # {}
    IN  /\ (collide /\ rpc \notin {"build", "assert"}) =>
              rpc = "failed" /\ matches = <<>> /\ warned = <<>>
        /\ rpc \in {"match", "warn", "returned"} =>
              ~ collide /\ IsDisjoint(refseq_genomes, genbank_genomes)
        /\ rpc = "failed" => collide

\* The call failed for an empty list of IDs.
C7_Witness == rpc = "failed" /\ genome_ids = <<>> /\ Len(records) = 2

\* C8: an ID that is in neither dictionary does not make the call fail: the
\* call returns whenever the key sets are disjoint, the keys of the result are
\* the requested IDs that are a RefSeq or a GenBank project ID of the table, and
\* there is one warning for every other requested ID.
C8_Unmatched ==
    LET known == RefSeqIds \cup GenBankIds
    IN  /\ rpc = "failed" => RefSeqIds \cap GenBankIds # {}
        /\ rpc = "returned" =>
              /\ DOMAIN matches = Range(genome_ids) \cap known
              /\ Range(warned) = Range(genome_ids) \ known
              /\ Len(warned) =
                   Cardinality({i \in DOMAIN genome_ids : genome_ids[i] \notin known})
              /\ \A id \in DOMAIN matches :
                    \E i \in DOMAIN records :
                       /\ matches[id] = records[i]
                       /\ id \in {records[i].RefSeq_project_ID, records[i].Project_ID}

\* One requested ID is a RefSeq project ID, the other is unknown.
C8_Witness ==
    /\ rpc = "returned"
    /\ genome_ids = << <<"1">>, <<"9">> >>
    /\ <<"1">> \in RefSeqIds
    /\ DOMAIN matches = {<<"1">>}
    /\ warned = << <<"9">> >>

\* Call i of main's loop was made and has returned.
Retrieved(i) == i < calls \/ (i = calls /\ pc = "returned")

\* C9 as stated: when the download of one genome has failed, every other
\* selected genome is retrieved all the same.
C9_SiblingsContinue ==
    (mpc = "failed" /\ pc = "failed") =>
        \A i \in DOMAIN genomes : i # gi => Retrieved(i)

\* C9 as amended: an exception of download_genome_files ends main: no call is
\* made after it, so the genomes after the failing one are not retrieved, and
\* the genomes before it were retrieved and logged.
C9_AbortStep ==
    pc = "failed" => (pc' = "failed" /\ calls' = calls /\ mpc' = "failed")

C9_Aborted ==
    (mpc = "failed" /\ pc = "failed") =>
        /\ calls = gi /\ genome = genomes[gi]
        /\ \A i \in DOMAIN genomes : Retrieved(i) <=> i < gi
        /\ genomes_file =>
             /\ Len(provenance) \in {gi - 1, gi}
             /\ \A i \in 1..(gi - 1) : provenance[i][2] = genomes[i].Organism_Name

C9_BatchAborts == [] C9_Aborted /\ [][C9_AbortStep]_vars

\* The first of two genomes failed and main is over.
C9_Witness ==
    /\ mpc = "failed" /\ pc = "failed"
    /\ gi = 1 /\ Len(genomes) = 2 /\ genomes[2] # genomes[1]

\* The second of two genomes failed after the first was retrieved.
C9_WitnessLast ==
    /\ mpc = "failed" /\ pc = "failed" /\ genomes_file
    /\ gi = 2 /\ Len(genomes) = 2 /\ Len(provenance) = 1

\* The number of tab-separated fields of a line: one more than its tabs.
Fields(line) == Cardinality({i \in DOMAIN line : line[i] = Tab}) + 1

\* A comment line: its first characters are # or "#.
IsCommentLine(line) ==
    \/ Len(line) >= 1 /\ line[1] = "#"
    \/ Len(line) >= 2 /\ line[1] = Quote /\ line[2] = "#"

IsColumnsLine(line) ==
    /\ StartsWith(line, ColumnsMarker)
    /\ Len(line) > Len(ColumnsMarker) => line[Len(ColumnsMarker) + 1] = Tab

C10_RowStep ==
    /\ (/\ ppc = "loop" /\ line_i < Len(lines)
        /\ Len(lines[line_i + 1]) > 0
        /\ ~ IsCommentLine(lines[line_i + 1])
        /\ Fields(lines[line_i + 1]) # Len(columns))
       => /\ ppc' = "failed"
          /\ perror' = MalformedRow(Len(columns), Fields(lines[line_i + 1]),
                                    lines[line_i + 1])
          /\ parsed_genomes' = parsed_genomes
          /\ result' = << >>
    /\ parsed_genomes' # parsed_genomes =>
          /\ Len(parsed_genomes') > 0 =>
                DOMAIN parsed_genomes'[Len(parsed_genomes')] = Range(columns)
          /\ \A i \in DOMAIN parsed_genomes' :
                \/ \E j \in DOMAIN parsed_genomes : parsed_genomes'[i] = parsed_genomes[j]
                \/ /\ i = Len(parsed_genomes')
                   /\ DOMAIN parsed_genomes'[i] = Range(columns)
                   /\ Fields(lines[line_i + 1]) = Len(columns)

C10_Whole ==
    /\ ppc # "returned" => result = << >>
    /\ (/\ ppc = "returned"
        /\ Cardinality({i \in DOMAIN lines : IsColumnsLine(lines[i])}) <= 1)
       => \A i \in DOMAIN result : DOMAIN result[i] = Range(columns)

\* C10: a line that is neither empty nor a comment and whose number of
\* tab-separated fields differs from the number of declared columns, a data line
\* before the '## Columns:' line included, makes the parse fail with the
\* assertion error that carries the two counts and the line; nothing is
\* returned then and no record was added for the line.  A record is added only
\* for a line with as many fields as columns, and when the parse of a table
\* with one header line returns, every record has a value for exactly the
\* declared columns.
C10_MalformedRow == [] C10_Whole /\ [][C10_RowStep]_vars

\* A row was parsed and the next one has a field too many.
C10_Witness ==
    /\ ppc = "failed"
    /\ Len(parsed_genomes) = 1
    /\ perror = MalformedRow(2, 3, << "1", Tab, "a", Tab, "b" >>)
    /\ result = << >>

\* A data line before the header line.
C10_WitnessBeforeColumns ==
    /\ ppc = "failed"
    /\ perror = MalformedRow(0, 2, << Tab, "c" >>)
    /\ \E i \in DOMAIN lines : i > line_i + 1 /\ IsColumnsLine(lines[i])

\* A parse that returns two records.
C10_WitnessReturned ==
    /\ ppc = "returned" /\ Len(result) = 2
    /\ \A i \in DOMAIN result : DOMAIN result[i] = Range(columns)

\* The records of l whose RefSeq project ID is not empty, in the order of l.
RECURSIVE NonEmptyRefSeq(_)
NonEmptyRefSeq(l) ==
    IF Len(l) = 0 THEN << >>
    ELSE IF Len(l[1][RefSeqProjectID]) > 0
         THEN << l[1] >> \o NonEmptyRefSeq(Tail(l))
         ELSE NonEmptyRefSeq(Tail(l))

\* C11: the list of a parse without require_refseq is the list of the rows of
\* the table, and with require_refseq the list is, after every line and at the
\* return, those of the rows read so far whose RefSeq project ID is not
\* empty, in the same order: filtering in the pass gives what parsing all rows
\* and filtering afterwards gives.
C11_FilterAfterParse ==
    /\ (~ require_refseq /\ ppc \in {"loop", "returned"}) =>
          parsed_genomes = appended_rows
    /\ (~ require_refseq /\ ppc = "returned") => result = appended_rows
    /\ (require_refseq /\ ppc \in {"loop", "returned"}) =>
          parsed_genomes = NonEmptyRefSeq(appended_rows)
    /\ (require_refseq /\ ppc = "returned") =>
          result = NonEmptyRefSeq(appended_rows)

\* A parse with require_refseq returned one of the two rows of the table: the
\* row without a RefSeq project ID came first and was dropped.
C11_Witness ==
    /\ require_refseq /\ ppc = "returned"
    /\ Len(appended_rows) = 2 /\ Len(result) = 1
    /\ Len(appended_rows[1][RefSeqProjectID]) = 0
    /\ result[1] = appended_rows[2]

\* sep.join(items)
RECURSIVE JoinWith(_, _)
JoinWith(items, sep) ==
    IF Len(items) = 0 THEN << >>
    ELSE IF Len(items) = 1 THEN items[1]
    ELSE items[1] \o << sep >> \o JoinWith(Tail(items), sep)

\* parsed is what the claim asks of a value of a column split on sep: no item
\* at all for a value of length 0 or 1, and else the items, free of sep, that
\* sep joins to the value.
IsItemsOf(parsed, value, sep) ==
    IF Len(value) <= 1
    THEN parsed = << >>
    ELSE /\ Len(parsed) >= 1
         /\ \A k \in DOMAIN parsed : \A c \in DOMAIN parsed[k] : parsed[k][c] # sep
         /\ JoinWith(parsed, sep) = value

\* The header lines among the lines the loop is done with.
HeadersRead == {i \in 1..line_i : IsColumnsLine(lines[i])}

\* The column names as the header line declares them, between their quotes.
Declared(header) ==
    LET fields == Split(header, Tab)
    IN  [i \in 1..(Len(fields) - 1) |-> SubSeq(fields[i + 1], 2, Len(fields[i + 1]) - 1)]

\* The name under which a declared column is stored.
StoredName(d) ==
    IF EndsWith(d, CommaSuffix) THEN SubSeq(d, 1, Len(d) - Len(CommaSuffix))
    ELSE IF EndsWith(d, PipeSuffix) THEN SubSeq(d, 1, Len(d) - Len(PipeSuffix))
    ELSE d

C12_RowStep ==
    (appended_rows' # appended_rows /\ Cardinality(HeadersRead) = 1) =>
        LET declared == Declared(lines[CHOOSE i \in HeadersRead : TRUE])
            values == Split(lines[line_i + 1], Tab)
            row == appended_rows'[Len(appended_rows')]
        IN  (\A i, j \in DOMAIN declared :
                 i # j => StoredName(declared[i]) # StoredName(declared[j]))
            => /\ DOMAIN row = {StoredName(declared[i]) : i \in DOMAIN declared}
               /\ \A i \in DOMAIN declared :
                     LET d == declared[i]
                     IN  IF EndsWith(d, CommaSuffix)
                         THEN /\ IsItemsOf(row[StoredName(d)], values[i], ",")
                              /\ ~ EndsWith(StoredName(d), CommaSuffix)
                         ELSE IF EndsWith(d, PipeSuffix)
                         THEN /\ IsItemsOf(row[StoredName(d)], values[i], "|")
                              /\ ~ EndsWith(StoredName(d), PipeSuffix)
                         ELSE row[d] = values[i]

\* C12: in a table with one header line of distinct column names, the value of
\* a column declared comma separated or pipe separated becomes the sequence of
\* the items that the separator joins to it, in order, and the empty sequence
\* if its length is 0 or 1; the value of a column declared without such a
\* suffix stays the string of the line; the columns are stored under their
\* names without the suffix.
C12_SplitValues == [][C12_RowStep]_vars

\* Two rows under the header with a comma separated column L: the value a,b
\* became two items and the value c none.
C12_Witness ==
    /\ Len(appended_rows) = 2
    /\ Cardinality(HeadersRead) = 1
    /\ DOMAIN appended_rows[1] = {RefSeqProjectID, << "L" >>}
    /\ appended_rows[1][<< "L" >>] = << << "a" >>, << "b" >> >>
    /\ appended_rows[1][RefSeqProjectID] = << "1" >>
    /\ appended_rows[2][<< "L" >>] = << >>

\* The project ID of the genome in the namespace of the target directory.
UsedProjectId == IF target_dir[1] = "refseq" THEN genome.RefSeq_project_ID ELSE genome.Project_ID

\* The base path of the namespace of the target directory.
UsedBase == IF target_dir[1] = "refseq" THEN RefSeqBase ELSE GenBankBase

C13_LogStep ==
    provenance' # provenance =>
        /\ download_log
        /\ Len(provenance') = Len(provenance) + 1
        /\ SubSeq(provenance', 1, Len(provenance)) = provenance

C13_OneLine ==
    /\ SubSeq(provenance, 1, Len(provenance0)) = provenance0
    /\ (pc = "returned" /\ download_log) =>
          /\ Len(provenance) = Len(provenance0) + 1
          /\ LET line == provenance[Len(provenance)]
             IN  /\ line[1] = UsedProjectId
                 /\ line[2] = genome.Organism_Name
                 /\ line[3] = host
                 /\ line[4] \in Range(nlst(UsedBase))
                 /\ EndsWith(line[4], Uid \o UsedProjectId)
                 /\ \A i \in DOMAIN genome_files : genome_files[i][1] = line[1]

\* C13: a call that was given a log path and returns has appended one line to
\* the provenance log, whatever the number of its accession codes: the line of
\* the genome with the project ID of the namespace whose directory was taken
\* and that directory; the log only grows at its end, so no call changes or
\* removes a line that was there.
C13_ProvenanceLine == [] C13_OneLine /\ [][C13_LogStep]_vars

\* The second call with a log path returned for a genome without accession
\* codes, after a first one for a genome with two.
C13_Witness ==
    /\ pc = "returned" /\ download_log
    /\ genome = G5 /\ Len(genome_files) = 0
    /\ Len(provenance) = 2
    /\ provenance[1][1] = << "1" >>
    /\ provenance[2][1] = << "8" >>

\* The accession codes of the genome in the namespace of the target directory.
UsedAccessions ==
    IF target_dir[1] = "refseq"
    THEN genome.List_of_RefSeq_accessions
    ELSE genome.List_of_GenBank_accessions

\* The triple of the accession code at position i of the list.
IsTripleOf(triple, i) ==
    /\ Len(triple) = 3
    /\ triple[1] = UsedProjectId
    /\ triple[2] = OutFile(target_dir, << UsedAccessions[i], ".gbk" >>)
    /\ \/ triple[3] = OutFile(target_dir, << UsedAccessions[i], ".ptt" >>)
       \/ /\ triple[3] = None
          /\ \A r \in DOMAIN RemoteFiles : r[2] # << UsedAccessions[i], ".ptt" >>

\* C14: a call that returns gives one triple per accession code of the list of
\* the namespace whose directory was taken, in the order of the list: the
\* project ID of that namespace, the path of the .gbk file and the path of the
\* .ptt file, or None in its place when the archive has no .ptt file.
C14_OneTriplePerStem ==
    pc = "returned" =>
        /\ Len(genome_files) = Len(UsedAccessions)
        /\ \A i \in DOMAIN genome_files : IsTripleOf(genome_files[i], i)

\* The call for G1 returned two triples: NC1 without a .ptt file, then NC2.
C14_Witness ==
    /\ pc = "returned" /\ genome = G1
    /\ Len(genome_files) = 2
    /\ genome_files[1][3] = None
    /\ genome_files[2][3] = OutFile(target_dir, << "NC2", ".ptt" >>)

\* isFresh(path, maxAgeSeconds) as the specification states it.
IsFreshFor(f, time, maxAge) == f.exists /\ Len(f.content) # 0 /\ f.mtime > time - maxAge

C15_ReuseStep ==
    tpc = "check" =>
        IF IsFreshFor(genome_table, table_time, 24 * 60 * 60)
        THEN /\ tpc' = "returned"
             /\ http_requests' = 0
             /\ genome_table' = genome_table
        ELSE /\ http_requests' = 1
             /\ tpc' = "returned" => genome_table'.mtime = table_time

\* C15: the saved table is read, and no request is made, if and only if the
\* file exists, is not empty and was modified less than 24 hours ago; in every
\* other case the table is requested and, when the request succeeds, the file
\* is written again.
C15_ReuseIffFresh == [][C15_ReuseStep]_vars

\* The day of a date string: that of its first ten characters, MM/DD/YYYY.
DayOf(s) == Strptime(SubSeq(s, 1, 10)).value[1]

\* The date is there and its day is within the last 30 days.
IsRecent(s) == Len(s) > 0 /\ DayOf(s) > today[1] - 30

HasLabel(name) == \E i \in DOMAIN labels : labels[i][1] = name

\* The three rules, each on its own field.
C16_Rules ==
    /\ lpc # "failed"
    /\ lpc = "returned" =>
          /\ HasLabel("New!") <=> IsRecent(label_genome.Released_date)
          /\ HasLabel("Updated!") <=> IsRecent(label_genome.Modified_date)
          /\ HasLabel("Only Mb!") <=>
                /\ Len(label_genome.Genome_Size) > 0
                /\ ToInt(Split(label_genome.Genome_Size, ".")[1]) < 1
          /\ Len(labels) <= 3

\* C16: for a genome whose released date and modified date are
\* each absent or of the form MM/DD/YYYY[ HH:MM:SS], the call returns without
\* error and the result has the label New! iff the released date is within the
\* last 30 days, Updated! iff the day of the modified date is, and the warning
\* iff the genome size is below 1.
C16_LabelsWithTimes ==
    (\A d \in {label_genome.Released_date, label_genome.Modified_date} :
        Len(d) \in {0, Len(Feb12), Len(Feb12) + Len(SomeTime)})
    => C16_Rules

\* What holds of the code: the same for the genomes whose released date is
\* absent or of the form MM/DD/YYYY without a time of day.
C16_Labels ==
    (/\ Len(label_genome.Released_date) \in {0, Len(Feb12)}
     /\ Len(label_genome.Modified_date) \in {0, Len(Feb12), Len(Feb12) + Len(SomeTime)})
    => C16_Rules

\* All three labels: released and modified 29 days ago, the modified date with
\* a time of day, and half a megabase.
C16_Witness ==
    /\ lpc = "returned"
    /\ label_genome.Released_date = Feb14
    /\ label_genome.Modified_date = Feb14 \o SomeTime
    /\ Len(labels) = 3
    /\ labels[1][1] = "New!" /\ labels[2][1] = "Updated!" /\ labels[3][1] = "Only Mb!"

\* Only the label Updated!: released 30 days ago, modified 29 days ago.
C16_WitnessUpdatedOnly ==
    /\ lpc = "returned"
    /\ label_genome.Released_date = Feb13
    /\ labels = << << "Updated!", Feb14 >> >>

C17_FailStep ==
    (pc = "retr" /\ pc' # "retr" /\ moved' = moved) =>
        \/ /\ pc' = "failed"
           /\ error' # NoError
           /\ genome_files' = genome_files
           /\ requests' = requests
        \/ /\ ext = ".ptt"
           /\ \A r \in DOMAIN RemoteFiles : r # << project_dir, filename >>
           /\ logged' = Append(logged, << "warning", NoSuchFile.msg >>)
           /\ pc' = "loop"

C17_Failed ==
    (pc = "failed" /\ project_dir # None) =>
        /\ acc_i <= Len(accessioncodes)
        /\ Len(genome_files) = acc_i - 1
        /\ requests <= 2 * (acc_i - 1) + (IF ext = ".gbk" THEN 1 ELSE 2)

\* C17: a transfer that ends without its file moved into the cache ends the
\* call with the exception, whether the file is a .gbk or a .ptt file, except
\* for a .ptt file that the archive does not have, whose error of the kind
\* 'No such file or directory' becomes a warning; the failed call returns no
\* list, has a triple for the accession codes before the failing one only and
\* has requested no file of a later accession code.
C17_ErrorsPropagate == [] C17_Failed /\ [][C17_FailStep]_vars

\* The .ptt file of the first of two accession codes was refused with a
\* permanent error that is not 'No such file or directory'.
C17_Witness ==
    /\ pc = "failed" /\ error = PermissionDenied
    /\ genome = G1 /\ acc_i = 1 /\ ext = ".ptt"
    /\ Len(accessioncodes) = 2
    /\ genome_files = << >>

\* C18: a call opens one connection, uses it for its listings and transfers
\* and has closed it once when it has ended, with its list, with the assertion
\* that no project directory was found or with the error of a download.
C18_OneConnection ==
    /\ pc # "idle" => Len(conns) = 1
    /\ pc \in {"refseq", "genbank", "log", "loop", "download", "retr"} =>
          conns = << "open" >>
    /\ pc \in {"returned", "failed"} => conns = << "closed" >>

\* What holds of the code: the connection is closed when the call returns its
\* list and is still open when an exception has left the call.
C18_ClosedOnReturn ==
    /\ pc # "idle" => Len(conns) = 1
    /\ pc \in {"refseq", "genbank", "log", "loop", "download", "retr"} =>
          conns = << "open" >>
    /\ pc = "returned" => conns = << "closed" >>
    /\ pc = "failed" => conns = << "open" >>

\* C19: with a log path, the line of the genome is in the log from the moment
\* a directory was found for it, before the first file is requested, and only
\* then: a call that found no directory, or whose listing failed, has added
\* nothing, and a call whose download failed has left the line of a genome of
\* which no file, or not every file, was retrieved.
C19_LoggedIffLocated ==
    download_log =>
        /\ Len(provenance) = Len(provenance0) + 1 <=>
              (project_dir # None /\ pc \notin {"refseq", "genbank", "log"})
        /\ Len(provenance) # Len(provenance0) + 1 => provenance = provenance0
        /\ requests > 0 => Len(provenance) = Len(provenance0) + 1
        /\ (pc = "failed" /\ error = ProjectDirectoryNotFound) =>
              provenance = provenance0

\* The line of G4 is in the log and the call failed on its first file.
C19_Witness ==
    /\ download_log /\ pc = "failed" /\ error = NoSuchFile
    /\ genome = G4 /\ moved = 0 /\ genome_files = << >>
    /\ Len(provenance) = Len(provenance0) + 1
    /\ provenance[Len(provenance)][1] = << "7" >>

\* No directory for G3: the call failed and the log is as it was.
C19_WitnessNotLocated ==
    /\ download_log /\ pc = "failed" /\ error = ProjectDirectoryNotFound
    /\ genome = G3 /\ provenance = provenance0

====
